---- MODULE Spec2Model ----
(***************************************************************************)
(* Basis-closure solver for Lie algebras of polynomial vector fields.      *)
(*                                                                         *)
(* The model follows src/lib/solver.py (LieBasisSolver), the derivation    *)
(* wrapper of src/lib/derivation.py (LieDerivation) and the older          *)
(* procedural completion of src/lib/generator.py (check).                  *)
(*                                                                         *)
(* Polynomials are kept exactly: a polynomial of K[g_0..g_{n-1}], K = QQ,  *)
(* is a function from its support (the monomials with a nonzero            *)
(* coefficient) to rationals in lowest terms; a monomial is its exponent   *)
(* vector; a derivation is the tuple of the images of the generators.      *)
(* Component indices are 0-based as in the source.                         *)
(***************************************************************************)
EXTENDS Integers, Naturals, Sequences, FiniteSets, TLC

(***************************************************************************)
(* Bounds of the checked instances.                                        *)
(***************************************************************************)
\* number of ring generators: PolynomialRing(QQ, 'x, y')
NVars == 2
\* largest total degree of a monomial of an input generator image
MaxDeg == 1
\* largest iteration budget tried besides the defaults
MaxIter == 5
\* largest exponent k of the fields d/dx, x^k d/dy
MaxK == 2
\* def __init__(self, generators, max_iter=1000)
DefaultMaxIter == 1000
\* def check(generators, max_iter=100)
CheckDefaultMaxIter == 100

Idx == 0 .. (NVars - 1)

(***************************************************************************)
(* The field QQ: pairs <<numerator, denominator>> in lowest terms.         *)
(***************************************************************************)
Abs(a) == IF a < 0 THEN -a ELSE a

RECURSIVE Gcd(_, _)
Gcd(a, b) == IF b = 0 THEN a ELSE Gcd(b, a % b)

RatNorm(num, den) ==
    LET s == IF den < 0 THEN -1 ELSE 1
        g == Gcd(Abs(num), Abs(den))
    IN  <<(s * num) \div g, (s * den) \div g>>

RatZero == <<0, 1>>
RatOne == <<1, 1>>
RatInt(k) == <<k, 1>>
RatAdd(a, b) == RatNorm(a[1] * b[2] + b[1] * a[2], a[2] * b[2])
RatNeg(a) == <<-a[1], a[2]>>
RatMul(a, b) == RatNorm(a[1] * b[1], a[2] * b[2])
\* 1/lc for lc # 0
RatInv(a) == RatNorm(a[2], a[1])

(***************************************************************************)
(* Monomials and the monomial order (degrevlex, the default order of       *)
(* PolynomialRing).                                                        *)
(***************************************************************************)
MonoOne == [i \in Idx |-> 0]
MonoGen(k) == [i \in Idx |-> IF i = k THEN 1 ELSE 0]
MonoMul(a, b) == [i \in Idx |-> a[i] + b[i]]

RECURSIVE MonoDegUpTo(_, _)
MonoDegUpTo(m, k) == IF k < 0 THEN 0 ELSE m[k] + MonoDegUpTo(m, k - 1)
MonoDeg(m) == MonoDegUpTo(m, NVars - 1)

\* lm > curr_lm
MonoGT(a, b) ==
    \/ MonoDeg(a) > MonoDeg(b)
    \/ /\ MonoDeg(a) = MonoDeg(b)
       /\ \E i \in Idx : /\ a[i] < b[i]
                         /\ \A j \in Idx : j > i => a[j] = b[j]

(***************************************************************************)
(* Polynomials: the set of the terms <<monomial, coefficient>> with a      *)
(* nonzero coefficient, one term for each monomial of the support.         *)
(***************************************************************************)
PolyZero == {}
PolyMonos(p) == {t[1] : t \in p}
PolyCoef(p, m) ==
    LET at == {t \in p : t[1] = m}
    IN  IF at = {} THEN RatZero ELSE (CHOOSE t \in at : TRUE)[2]
\* drop the terms with a zero coefficient
PolyOf(terms) == {t \in terms : t[2] # RatZero}
PolyTerm(c, m) == PolyOf({<<m, c>>})
PolyOne == PolyTerm(RatOne, MonoOne)
PolyAdd(p, q) ==
    PolyOf({<<m, RatAdd(PolyCoef(p, m), PolyCoef(q, m))>> : m \in PolyMonos(p) \cup PolyMonos(q)})
PolyScale(p, c) == PolyOf({<<t[1], RatMul(t[2], c)>> : t \in p})
PolySub(p, q) == PolyAdd(p, PolyScale(q, RatInt(-1)))

RECURSIVE SumProducts(_)
SumProducts(pairs) ==
    IF pairs = {} THEN RatZero
    ELSE LET pr == CHOOSE x \in pairs : TRUE
         IN  RatAdd(RatMul(pr[1][2], pr[2][2]), SumProducts(pairs \ {pr}))

PolyMul(p, q) ==
    PolyOf({<<m, SumProducts({pr \in p \X q : MonoMul(pr[1][1], pr[2][1]) = m})>> :
               m \in {MonoMul(a[1], b[1]) : a \in p, b \in q}})

\* partial derivative of p with respect to the generator g_k
PolyDiff(p, k) ==
    PolyOf({<<[i \in Idx |-> IF i = k THEN t[1][i] - 1 ELSE t[1][i]],
              RatMul(RatInt(t[1][k]), t[2])>> : t \in {o \in p : o[1][k] > 0}})

\* poly.lm(), poly.lc(), poly.degree() of a nonzero polynomial
PolyLm(p) == CHOOSE m \in PolyMonos(p) : \A o \in PolyMonos(p) : o = m \/ MonoGT(m, o)
PolyLc(p) == PolyCoef(p, PolyLm(p))
PolyDegree(p) == MonoDeg(PolyLm(p))

(***************************************************************************)
(* LieDerivation: the tuple of the images of the generators.               *)
(***************************************************************************)
\* the derivation with the images f[0], ..., f[n-1]
RECURSIVE ImagesUpTo(_, _)
ImagesUpTo(f, k) == IF k = 0 THEN (0 :> f[0]) ELSE ImagesUpTo(f, k - 1) @@ (k :> f[k])
Derivation(f) == ImagesUpTo(f, NVars - 1)

RECURSIVE CallFrom(_, _, _)
CallFrom(D, p, k) ==
    IF k >= NVars THEN PolyZero
    ELSE PolyAdd(PolyMul(PolyDiff(p, k), D[k]), CallFrom(D, p, k + 1))

\* LieDerivation.__call__: D applied to an element (linearity and Leibniz)
DerivCall(D, p) == CallFrom(D, p, 0)

\* self(g) for the generator g = g_i: the image the derivation was built with
Image(D, i) == D[i]

\* LieDerivation.__sub__
DerivSub(A, B) ==
    Derivation([i \in Idx |-> PolySub(Image(A, i), Image(B, i))])

\* LieDerivation.__mul__ by a scalar
DerivMul(D, c) == Derivation([i \in Idx |-> PolyScale(Image(D, i), c)])

DerivZero == Derivation([i \in Idx |-> PolyZero])

\* variant of bracket: the two compositions are added
bracket_anticommutator(self, other) ==
    Derivation([i \in Idx |-> PolyAdd(DerivCall(self, Image(other, i)),
                                      DerivCall(other, Image(self, i)))])

\* variant of bracket: the second composition is missing
bracket_composition(self, other) ==
    Derivation([i \in Idx |-> DerivCall(self, Image(other, i))])

\* LieDerivation.bracket: [D1, D2](g) = D1(D2(g)) - D2(D1(g))
bracket(self, other) ==
    Derivation([i \in Idx |-> PolySub(DerivCall(self, Image(other, i)),
                                      DerivCall(other, Image(self, i)))])

None == <<>>

\* variant of leading_term: equal leading monomials go to the smaller index
RECURSIVE LeadingFromSmaller(_, _, _)
LeadingFromSmaller(D, i, best_term) ==
    IF i >= NVars THEN best_term
    ELSE LET poly == Image(D, i)
         IN  IF poly = PolyZero THEN LeadingFromSmaller(D, i + 1, best_term)
             ELSE IF best_term = None \/ MonoGT(PolyLm(poly), best_term[2])
             THEN LeadingFromSmaller(D, i + 1, <<i, PolyLm(poly), PolyLc(poly)>>)
             ELSE LeadingFromSmaller(D, i + 1, best_term)

leading_term_smaller_index(D) == LeadingFromSmaller(D, 0, None)

\* variant of leading_term: the component index is the position among the
\* nonzero images, not among the generators
RECURSIVE LeadingFromPosition(_, _, _, _)
LeadingFromPosition(D, i, pos, best_term) ==
    IF i >= NVars THEN best_term
    ELSE LET poly == Image(D, i)
         IN  IF poly = PolyZero THEN LeadingFromPosition(D, i + 1, pos, best_term)
             ELSE IF \/ best_term = None
                     \/ MonoGT(PolyLm(poly), best_term[2])
                     \/ PolyLm(poly) = best_term[2]
             THEN LeadingFromPosition(D, i + 1, pos + 1, <<pos, PolyLm(poly), PolyLc(poly)>>)
             ELSE LeadingFromPosition(D, i + 1, pos + 1, best_term)

leading_term_position(D) == LeadingFromPosition(D, 0, 0, None)

RECURSIVE LeadingFrom(_, _, _)
LeadingFrom(D, i, best_term) ==
    IF i >= NVars THEN best_term
    ELSE LET poly == Image(D, i)
         IN  IF poly = PolyZero THEN LeadingFrom(D, i + 1, best_term)
             ELSE LET lm == PolyLm(poly)
                      lc == PolyLc(poly)
                  IN  IF best_term = None
                      THEN LeadingFrom(D, i + 1, <<i, lm, lc>>)
                      ELSE IF MonoGT(lm, best_term[2])
                      THEN LeadingFrom(D, i + 1, <<i, lm, lc>>)
                      ELSE IF lm = best_term[2] /\ i > best_term[1]
                      THEN LeadingFrom(D, i + 1, <<i, lm, lc>>)
                      ELSE LeadingFrom(D, i + 1, best_term)

\* LieDerivation.leading_term: None or <<component index, lm, lc>>
leading_term(D) == LeadingFrom(D, 0, None)

RECURSIVE DegreeFrom(_, _, _)
DegreeFrom(D, i, max_deg) ==
    IF i >= NVars THEN max_deg
    ELSE LET poly == Image(D, i)
         IN  IF poly # PolyZero /\ PolyDegree(poly) > max_deg
             THEN DegreeFrom(D, i + 1, PolyDegree(poly))
             ELSE DegreeFrom(D, i + 1, max_deg)

\* LieDerivation.degree: -1 for the zero derivation
degree(D) == DegreeFrom(D, 0, -1)

(***************************************************************************)
(* The work queue: QueueItem and the binary heap of heapq.                 *)
(***************************************************************************)
QueueItem(deg, counter, D) == [degree |-> deg, unique_counter |-> counter, derivation |-> D]

\* variant of ItemLT: the degree is not compared
ItemLT_counter_only(a, b) == a.unique_counter < b.unique_counter

\* dataclass(order=True): (degree, unique_counter), the derivation is not compared
ItemLT(a, b) ==
    \/ a.degree < b.degree
    \/ a.degree = b.degree /\ a.unique_counter < b.unique_counter

\* heapq._siftdown(heap, 0, pos), positions 1-based
RECURSIVE SiftDown(_, _, _)
SiftDown(heap, pos, newitem) ==
    IF pos > 1 /\ ItemLT(newitem, heap[pos \div 2])
    THEN SiftDown([heap EXCEPT ![pos] = heap[pos \div 2]], pos \div 2, newitem)
    ELSE [heap EXCEPT ![pos] = newitem]

\* heapq._siftup(heap, pos): move the smaller child up until a leaf is hit
RECURSIVE SiftUpFrom(_, _, _)
SiftUpFrom(heap, pos, newitem) ==
    LET childpos == 2 * pos
        rightpos == childpos + 1
        c == IF rightpos <= Len(heap) /\ ~ItemLT(heap[childpos], heap[rightpos])
             THEN rightpos ELSE childpos
    IN  IF childpos <= Len(heap)
        THEN SiftUpFrom([heap EXCEPT ![pos] = heap[c]], c, newitem)
        ELSE SiftDown(heap, pos, newitem)

heappush(heap, item) == SiftDown(Append(heap, item), Len(heap) + 1, item)

\* variant of heappop: the last item of the heap array is taken
heappop_last(heap) == <<heap[Len(heap)], SubSeq(heap, 1, Len(heap) - 1)>>

\* variant of heappop: the smallest item is read but stays in the heap
heappop_peek(heap) == <<heap[1], heap>>

\* heapq.heappop: <<returned item, heap afterwards>>
heappop(heap) ==
    LET lastelt == heap[Len(heap)]
        rest == SubSeq(heap, 1, Len(heap) - 1)
    IN  IF rest # <<>>
        THEN <<heap[1], SiftUpFrom(rest, 1, lastelt)>>
        ELSE <<lastelt, rest>>

(***************************************************************************)
(* State of one completion: the fields of a LieBasisSolver instance, or    *)
(* the locals of check, and the position of the caller.                    *)
(***************************************************************************)
VARIABLES
    impl,            \* "solver": LieBasisSolver, "check": generator.check
    pc,              \* "start", "raised", "idle", "run", "run_end", "loop", "returned"
    attrs,           \* names of the instance attributes / locals bound so far
    generators,      \* the input list
    max_iter,        \* the iteration budget
    basis,           \* (comp_idx, lm) -> normalized derivation
    queue,           \* solver: heap array of QueueItem; check: list of derivations
    processed,       \* accepted elements in acceptance order
    targets_found,   \* comp_idx -> BOOLEAN
    unique_counter,  \* number of items ever enqueued by the solver
    iter_count,      \* number of candidates popped
    ret,             \* value returned by the last step(): "none", "True", "False"
    result           \* value returned by run() / check(): "none", "True", "False"

vars == <<impl, pc, attrs, generators, max_iter, basis, queue, processed,
          targets_found, unique_counter, iter_count, ret, result>>

solverState == <<basis, queue, processed, targets_found, unique_counter, iter_count>>

EmptyBasis == [k \in {} |-> DerivZero]
BasisPut(b, key, D) == [k \in (DOMAIN b) \cup {key} |-> IF k = key THEN D ELSE b[k]]

SolverAttrs == {"generators", "max_iter", "algebra", "gens", "n", "basis", "queue",
                "processed", "targets_found", "unique_counter", "iter_count"}
CheckLocals == {"algebra", "gens", "n", "basis", "queue", "processed",
                "targets_found", "iter_count"}

\* TLC evaluates a LET definition where it is first used; Evaluated(v) is TRUE
\* and makes that place the conjunct it stands in
Evaluated(v) == v = v

\* all(self.targets_found.values())
AllFound(tf) == \A i \in Idx : tf[i]

\* variant of add_to_queue: the counter is not advanced
add_to_queue_same_counter(q, counter, D) ==
    <<heappush(q, QueueItem(degree(D), counter, D)), counter>>

\* LieBasisSolver._add_to_queue: <<queue, unique_counter>> afterwards
add_to_queue(q, counter, D) ==
    <<heappush(q, QueueItem(degree(D), counter, D)), counter + 1>>

\* the chain of candidates visited by the loop of LieBasisSolver._reduce
RECURSIVE ReduceChain(_, _)
ReduceChain(D, b) ==
    LET lt == leading_term(D)
    IN  IF lt = None THEN <<D>>
        ELSE LET key == <<lt[1], lt[2]>>
             IN  IF key \in DOMAIN b
                 THEN <<D>> \o ReduceChain(DerivSub(D, DerivMul(b[key], lt[3])), b)
                 ELSE <<D>>

\* variant of reduce: the candidate is returned unreduced
reduce_none(D, b) == D

\* LieBasisSolver._reduce
reduce(D, b) == LET chain == ReduceChain(D, b) IN chain[Len(chain)]

\* LieBasisSolver._generate_commutators from position k of processed on
RECURSIVE CommutatorsFrom(_, _, _, _, _)
CommutatorsFrom(new_D, done, k, q, counter) ==
    IF k > Len(done) THEN <<q, counter>>
    ELSE LET new_bracket == bracket(new_D, done[k])
             added == add_to_queue(q, counter, new_bracket)
         IN  IF Evaluated(new_bracket) /\ Evaluated(added)
             THEN CommutatorsFrom(new_D, done, k + 1, added[1], added[2])
             ELSE <<q, counter>>

\* variant of generate_commutators: nothing is enqueued
generate_commutators_none(new_D, done, q, counter) == <<q, counter>>

generate_commutators(new_D, done, q, counter) == CommutatorsFrom(new_D, done, 1, q, counter)

\* variant of Stopped: the budget is not tested
Stopped_queue_only(q, it, budget) == q = <<>>

\* variant of Stopped: one candidate more than the budget is popped
Stopped_past_budget(q, it, budget) == q = <<>> \/ it > budget

\* step(): the early return of line 80
Stopped(q, it, budget) == q = <<>> \/ it >= budget

\* variant of Normalize: the division by the leading coefficient is missing
Normalize_none(D, lc) == D

\* step(): norm_D = current_D * (1/lc)
Normalize(D, lc) == DerivMul(D, RatInv(lc))

\* variant of IsTargetMonomial: every leading monomial counts as a target
IsTargetMonomial_any(lm) == lm = lm

\* variant of IsTargetMonomial: the comparison with 1 never succeeds
IsTargetMonomial_never(lm) == lm # lm

\* step(): lm == 1
IsTargetMonomial(lm) == lm = MonoOne

\* variant of SuccessDetected: the early return is missing
SuccessDetected_never(lm, tf) == FALSE

\* step(): all targets are found by the element just inserted
SuccessDetected(lm, tf) == IsTargetMonomial(lm) /\ AllFound(tf)

\* LieBasisSolver.step
step ==
    IF Stopped(queue, iter_count, max_iter)
    THEN /\ ret' = "False"
         /\ UNCHANGED solverState
    ELSE LET popped == heappop(queue)
             current_D == reduce(popped[1].derivation, basis)
             lt == leading_term(current_D)
         IN  /\ Evaluated(popped)
             /\ Evaluated(current_D)
             /\ iter_count' = iter_count + 1
             /\ IF lt = None
                THEN /\ queue' = popped[2]
                     /\ ret' = "True"
                     /\ UNCHANGED <<basis, processed, targets_found, unique_counter>>
                ELSE LET comp_idx == lt[1]
                         lm == lt[2]
                         norm_D == Normalize(current_D, lt[3])
                         tf == IF IsTargetMonomial(lm)
                               THEN [targets_found EXCEPT ![comp_idx] = TRUE]
                               ELSE targets_found
                         spawned == generate_commutators(norm_D, processed, popped[2],
                                                         unique_counter)
                     IN  /\ Evaluated(norm_D)
                         /\ basis' = BasisPut(basis, <<comp_idx, lm>>, norm_D)
                         /\ targets_found' = tf
                         /\ IF SuccessDetected(lm, tf)
                            THEN /\ ret' = "False"
                                 /\ queue' = popped[2]
                                 /\ UNCHANGED <<processed, unique_counter>>
                            ELSE /\ queue' = spawned[1]
                                 /\ unique_counter' = spawned[2]
                                 /\ processed' = Append(processed, norm_D)
                                 /\ ret' = "True"

\* LieBasisSolver.__init__: enqueue every generator
RECURSIVE InitQueueFrom(_, _, _, _)
InitQueueFrom(gs, k, q, counter) ==
    IF k > Len(gs) THEN <<q, counter>>
    ELSE LET added == add_to_queue(q, counter, gs[k])
         IN  InitQueueFrom(gs, k + 1, added[1], added[2])

\* variant of Rejects: the empty list is accepted
Rejects_nothing(gs) == FALSE

\* LieBasisSolver.__init__: if not generators: raise ValueError
Rejects(gs) == gs = <<>>

\* LieBasisSolver.__init__
LieBasisSolver_init ==
    /\ impl = "solver"
    /\ pc = "start"
    /\ IF Rejects(generators)
       THEN /\ pc' = "raised"
            /\ UNCHANGED <<attrs, solverState, ret, result>>
       ELSE LET seeded == InitQueueFrom(generators, 1, <<>>, 0)
            IN  /\ pc' = "idle"
                /\ attrs' = SolverAttrs
                /\ basis' = EmptyBasis
                /\ queue' = seeded[1]
                /\ processed' = <<>>
                /\ targets_found' = [i \in Idx |-> FALSE]
                /\ unique_counter' = seeded[2]
                /\ iter_count' = 0
                /\ UNCHANGED <<ret, result>>
    /\ UNCHANGED <<impl, generators, max_iter>>

\* the caller drives the solver one step at a time
step_call ==
    /\ impl = "solver"
    /\ pc = "idle"
    /\ step
    /\ UNCHANGED <<impl, pc, attrs, generators, max_iter, result>>

\* run(): running = True
run_call ==
    /\ impl = "solver"
    /\ pc = "idle"
    /\ pc' = "run"
    /\ UNCHANGED <<impl, attrs, generators, max_iter, solverState, ret, result>>

\* run(): while running: running = self.step()
run_loop ==
    /\ impl = "solver"
    /\ pc = "run"
    /\ step
    /\ pc' = IF ret' = "True" THEN "run" ELSE "run_end"
    /\ UNCHANGED <<impl, attrs, generators, max_iter, result>>

\* variant of RunSuccess: any() in place of all()
RunSuccess_any(tf) == \E i \in Idx : tf[i]

\* run(): success = all(self.targets_found.values())
RunSuccess(tf) == AllFound(tf)

run_return ==
    /\ impl = "solver"
    /\ pc = "run_end"
    /\ result' = IF RunSuccess(targets_found) THEN "True" ELSE "False"
    /\ pc' = "idle"
    /\ UNCHANGED <<impl, attrs, generators, max_iter, solverState, ret>>

(***************************************************************************)
(* generator.check: the procedural completion with a FIFO list.            *)
(***************************************************************************)
\* generator._deriv_scale
deriv_scale(D, scalar) ==
    Derivation([i \in Idx |-> PolyScale(Image(D, i), scalar)])

\* generator._deriv_sub_scaled: D1 - scalar * D2
deriv_sub_scaled(D1, D2, scalar) ==
    Derivation([i \in Idx |-> PolySub(Image(D1, i),
                                      PolyScale(Image(D2, i), scalar))])

\* variant of get_leading_term: equal leading monomials keep the first index
RECURSIVE GetLeadingFromFirst(_, _, _)
GetLeadingFromFirst(D, i, best_term) ==
    IF i >= NVars THEN best_term
    ELSE LET poly == Image(D, i)
         IN  IF poly = PolyZero THEN GetLeadingFromFirst(D, i + 1, best_term)
             ELSE IF best_term = None \/ MonoGT(PolyLm(poly), best_term[2])
             THEN GetLeadingFromFirst(D, i + 1, <<i, PolyLm(poly), PolyLc(poly)>>)
             ELSE GetLeadingFromFirst(D, i + 1, best_term)

get_leading_term_first_index(D) == GetLeadingFromFirst(D, 0, None)

RECURSIVE GetLeadingFrom(_, _, _)
GetLeadingFrom(D, i, best_term) ==
    IF i >= NVars THEN best_term
    ELSE LET poly == Image(D, i)
         IN  IF poly = PolyZero THEN GetLeadingFrom(D, i + 1, best_term)
             ELSE LET lm == PolyLm(poly)
                      lc == PolyLc(poly)
                  IN  IF best_term = None
                      THEN GetLeadingFrom(D, i + 1, <<i, lm, lc>>)
                      ELSE IF MonoGT(lm, best_term[2])
                      THEN GetLeadingFrom(D, i + 1, <<i, lm, lc>>)
                      ELSE IF lm = best_term[2] /\ i > best_term[1]
                      THEN GetLeadingFrom(D, i + 1, <<i, lm, lc>>)
                      ELSE GetLeadingFrom(D, i + 1, best_term)

\* generator._get_leading_term
get_leading_term(D) == GetLeadingFrom(D, 0, None)

\* the chain of candidates visited by the reduction loop of check
RECURSIVE CheckReduceChain(_, _)
CheckReduceChain(D, b) ==
    LET lt == get_leading_term(D)
    IN  IF lt = None THEN <<D>>
        ELSE LET key == <<lt[1], lt[2]>>
             IN  IF key \in DOMAIN b
                 THEN <<D>> \o CheckReduceChain(deriv_sub_scaled(D, b[key], lt[3]), b)
                 ELSE <<D>>

check_reduce(D, b) == LET chain == CheckReduceChain(D, b) IN chain[Len(chain)]

\* bracket of the class Derivation that check works with: the Lie bracket
\* [D1, D2] = D1(D2) - D2(D1), as LieDerivation.bracket
Derivation_bracket(self, other) == bracket(self, other)

\* check: for old_D in processed: queue.append(norm_D.bracket(old_D))
RECURSIVE CheckSpawnFrom(_, _, _, _)
CheckSpawnFrom(new_D, done, k, q) ==
    IF k > Len(done) THEN q
    ELSE LET new_bracket == Derivation_bracket(new_D, done[k])
         IN  IF Evaluated(new_bracket)
             THEN CheckSpawnFrom(new_D, done, k + 1, Append(q, new_bracket))
             ELSE q

\* check: the loop condition of line 201
CheckContinues(q, it, budget) == q # <<>> /\ it < budget

\* check(generators, max_iter) up to the first test of the loop condition
check_call ==
    /\ impl = "check"
    /\ pc = "start"
    /\ IF generators = <<>>
       THEN /\ result' = "False"
            /\ pc' = "returned"
            /\ UNCHANGED <<attrs, solverState>>
       ELSE /\ pc' = "loop"
            /\ attrs' = CheckLocals
            /\ basis' = EmptyBasis
            /\ queue' = generators
            /\ processed' = <<>>
            /\ targets_found' = [i \in Idx |-> FALSE]
            /\ iter_count' = 0
            /\ UNCHANGED <<unique_counter, result>>
    /\ UNCHANGED <<impl, generators, max_iter, ret>>

\* check: one iteration of the while loop
check_loop ==
    /\ impl = "check"
    /\ pc = "loop"
    /\ CheckContinues(queue, iter_count, max_iter)
    /\ LET current_D == check_reduce(Head(queue), basis)
           lt == get_leading_term(current_D)
       IN  /\ Evaluated(current_D)
           /\ iter_count' = iter_count + 1
           /\ IF lt = None
              THEN /\ queue' = Tail(queue)
                   /\ UNCHANGED <<basis, processed, targets_found, pc, result>>
              ELSE LET comp_idx == lt[1]
                       lm == lt[2]
                       norm_D == deriv_scale(current_D, RatInv(lt[3]))
                       tf == IF lm = MonoOne
                             THEN [targets_found EXCEPT ![comp_idx] = TRUE]
                             ELSE targets_found
                   IN  /\ Evaluated(norm_D)
                       /\ basis' = BasisPut(basis, <<comp_idx, lm>>, norm_D)
                       /\ targets_found' = tf
                       /\ IF lm = MonoOne /\ AllFound(tf)
                          THEN /\ result' = "True"
                               /\ pc' = "returned"
                               /\ queue' = Tail(queue)
                               /\ UNCHANGED processed
                          ELSE /\ queue' = CheckSpawnFrom(norm_D, processed, 1, Tail(queue))
                               /\ processed' = Append(processed, norm_D)
                               /\ UNCHANGED <<pc, result>>
    /\ UNCHANGED <<impl, attrs, generators, max_iter, unique_counter, ret>>

\* check: the loop condition fails, return False
check_return ==
    /\ impl = "check"
    /\ pc = "loop"
    /\ ~CheckContinues(queue, iter_count, max_iter)
    /\ result' = "False"
    /\ pc' = "returned"
    /\ UNCHANGED <<impl, attrs, generators, max_iter, solverState, ret>>

(***************************************************************************)
(* check as a function of its arguments: the locals when it returns.       *)
(***************************************************************************)
\* check: the locals before the loop
CheckStart(gs) ==
    [basis |-> EmptyBasis, queue |-> gs, processed |-> <<>>,
     targets_found |-> [i \in Idx |-> FALSE], iter_count |-> 0, result |-> "none"]

\* check: one iteration of the while loop on the locals st
CheckIteration(st) ==
    LET current_D == check_reduce(Head(st.queue), st.basis)
        lt == get_leading_term(current_D)
    IN  IF lt = None
        THEN [st EXCEPT !.iter_count = st.iter_count + 1, !.queue = Tail(st.queue)]
        ELSE LET comp_idx == lt[1]
                 lm == lt[2]
                 norm_D == deriv_scale(current_D, RatInv(lt[3]))
                 tf == IF lm = MonoOne
                       THEN [st.targets_found EXCEPT ![comp_idx] = TRUE]
                       ELSE st.targets_found
             IN  IF lm = MonoOne /\ AllFound(tf)
                 THEN [basis |-> BasisPut(st.basis, <<comp_idx, lm>>, norm_D),
                       queue |-> Tail(st.queue),
                       processed |-> st.processed,
                       targets_found |-> tf,
                       iter_count |-> st.iter_count + 1,
                       result |-> "True"]
                 ELSE [basis |-> BasisPut(st.basis, <<comp_idx, lm>>, norm_D),
                       queue |-> CheckSpawnFrom(norm_D, st.processed, 1, Tail(st.queue)),
                       processed |-> Append(st.processed, norm_D),
                       targets_found |-> tf,
                       iter_count |-> st.iter_count + 1,
                       result |-> "none"]

\* check: the while loop from the locals st on
RECURSIVE CheckLoopFrom(_, _)
CheckLoopFrom(st, budget) ==
    IF st.result # "none" THEN st
    ELSE IF ~CheckContinues(st.queue, st.iter_count, budget)
    THEN [st EXCEPT !.result = "False"]
    ELSE CheckLoopFrom(CheckIteration(st), budget)

\* check(generators, max_iter): the locals at the return statement
check(gs, budget) ==
    IF gs = <<>> THEN [CheckStart(gs) EXCEPT !.result = "False"]
    ELSE CheckLoopFrom(CheckStart(gs), budget)

(***************************************************************************)
(* Inputs.                                                                 *)
(***************************************************************************)
InputMonos == {m \in [Idx -> 0 .. MaxDeg] : MonoDeg(m) <= MaxDeg}
InputPolys == {PolyZero} \cup {PolyTerm(RatOne, m) : m \in InputMonos}
InputDerivations == [Idx -> InputPolys]

RECURSIVE ListsOfLen(_)
ListsOfLen(k) ==
    IF k = 0 THEN {<<>>}
    ELSE {Append(l, D) : l \in ListsOfLen(k - 1), D \in InputDerivations}

\* the empty list and lists of up to as many fields as the ring has variables
InputLists == UNION {ListsOfLen(k) : k \in 0 .. NVars}

Init ==
    /\ impl \in {"solver", "check"}
    /\ pc = "start"
    /\ attrs = {}
    /\ generators \in InputLists
    /\ max_iter \in 0 .. MaxIter
    /\ basis = EmptyBasis
    /\ queue = <<>>
    /\ processed = <<>>
    /\ targets_found = [i \in Idx |-> FALSE]
    /\ unique_counter = 0
    /\ iter_count = 0
    /\ ret = "none"
    /\ result = "none"

Next ==
    \/ LieBasisSolver_init
    \/ step_call
    \/ run_call
    \/ run_loop
    \/ run_return
    \/ check_call
    \/ check_loop
    \/ check_return

Spec == Init /\ [][Next]_vars

(***************************************************************************)
(* The commutator scenario of test_check_with_commutator_generation:       *)
(* generators [d/dx, x^k d/dy] on K[x, y].                                 *)
(***************************************************************************)
\* d/dg_i
Partial(i) == Derivation([j \in Idx |-> IF j = i THEN PolyOne ELSE PolyZero])

\* g_0^k
RECURSIVE PowerOfX(_)
PowerOfX(k) == IF k = 0 THEN MonoOne ELSE MonoMul(MonoGen(0), PowerOfX(k - 1))

\* [Derivation(A, {x: 1, y: 0}), Derivation(A, {x: 0, y: x^k})]
CommGens(k) ==
    <<Partial(0),
      Derivation([j \in Idx |-> IF j = 1 THEN PolyTerm(RatOne, PowerOfX(k)) ELSE PolyZero])>>

\* the budget of a call that passes no max_iter
DefaultBudget(which) == IF which = "solver" THEN DefaultMaxIter ELSE CheckDefaultMaxIter

InitComm ==
    /\ impl \in {"solver", "check"}
    /\ pc = "start"
    /\ attrs = {}
    /\ generators \in {CommGens(k) : k \in 1 .. MaxK}
    /\ max_iter \in (0 .. MaxIter) \cup {DefaultBudget(impl)}
    /\ basis = EmptyBasis
    /\ queue = <<>>
    /\ processed = <<>>
    /\ targets_found = [i \in Idx |-> FALSE]
    /\ unique_counter = 0
    /\ iter_count = 0
    /\ ret = "none"
    /\ result = "none"

SpecComm == InitComm /\ [][Next]_vars

(***************************************************************************)
(* The bracket tests of tests/test_bracket.py: three derivations A, B, C   *)
(* (held in generators), their pairwise brackets (held in processed) and   *)
(* the three terms of the Jacobi sum (held in queue).                      *)
(***************************************************************************)
InitBracket ==
    /\ impl = "bracket"
    /\ pc = "start"
    /\ attrs = {}
    /\ generators \in ListsOfLen(3)
    /\ max_iter = 0
    /\ basis = EmptyBasis
    /\ queue = <<>>
    /\ processed = <<>>
    /\ targets_found = [i \in Idx |-> FALSE]
    /\ unique_counter = 0
    /\ iter_count = 0
    /\ ret = "none"
    /\ result = "none"

\* test_bracket_properties: bracket_12 = D1.bracket(D2), bracket_21 =
\* D2.bracket(D1); test_jacobi_identity: the inner brackets B.bracket(C),
\* C.bracket(A), A.bracket(B)
bracket_pairs ==
    /\ impl = "bracket"
    /\ pc = "start"
    /\ LET A == generators[1]
           B == generators[2]
           C == generators[3]
       IN  processed' = <<bracket(A, B), bracket(B, A), bracket(B, C), bracket(C, A)>>
    /\ pc' = "pairs"
    /\ UNCHANGED <<impl, attrs, generators, max_iter, basis, queue, targets_found,
                   unique_counter, iter_count, ret, result>>

\* test_jacobi_identity: term1 = A.bracket(B.bracket(C)), term2 =
\* B.bracket(C.bracket(A)), term3 = C.bracket(A.bracket(B))
jacobi_terms ==
    /\ impl = "bracket"
    /\ pc = "pairs"
    /\ queue' = <<bracket(generators[1], processed[3]),
                  bracket(generators[2], processed[4]),
                  bracket(generators[3], processed[1])>>
    /\ pc' = "terms"
    /\ UNCHANGED <<impl, attrs, generators, max_iter, basis, processed, targets_found,
                   unique_counter, iter_count, ret, result>>

NextBracket == bracket_pairs \/ jacobi_terms

SpecBracket == InitBracket /\ [][NextBracket]_vars

(***************************************************************************)
(* leading_term and _get_leading_term as functions of a derivation: the    *)
(* derivation A - 2 * B for two input derivations A, B (held in            *)
(* generators); the derivation is kept in processed, the two results in    *)
(* queue.                                                                  *)
(***************************************************************************)
InitLeading ==
    /\ impl = "leading_term"
    /\ pc = "start"
    /\ attrs = {}
    /\ generators \in ListsOfLen(2)
    /\ max_iter = 0
    /\ basis = EmptyBasis
    /\ queue = <<>>
    /\ processed = <<>>
    /\ targets_found = [i \in Idx |-> FALSE]
    /\ unique_counter = 0
    /\ iter_count = 0
    /\ ret = "none"
    /\ result = "none"

\* D.leading_term and _get_leading_term(D) for D = A - B * 2
leading_term_call ==
    /\ impl = "leading_term"
    /\ pc = "start"
    /\ LET D == DerivSub(generators[1], DerivMul(generators[2], RatInt(2)))
       IN  /\ processed' = <<D>>
           /\ queue' = <<leading_term(D), get_leading_term(D)>>
    /\ pc' = "returned"
    /\ UNCHANGED <<impl, attrs, generators, max_iter, basis, targets_found,
                   unique_counter, iter_count, ret, result>>

NextLeading == leading_term_call

SpecLeading == InitLeading /\ [][NextLeading]_vars

(***************************************************************************)
(* Properties.                                                             *)
(***************************************************************************)
\* the basis key of the target d/dg_i
TargetKey(i) == <<i, MonoOne>>

\* the items held by a queue
Items(q) == {q[k] : k \in 1 .. Len(q)}

\* the elements of a list
Range(l) == {l[k] : k \in 1 .. Len(l)}

\* a step() returns in this transition: called directly or by the loop of run()
StepTaken ==
    /\ impl = "solver"
    /\ \/ pc = "idle" /\ pc' = "idle"
       \/ pc = "run"

\* C1: whenever run() or check returns true, every key (i, 1) is in the basis
\* and its entry is exactly d/dg_i: g_i goes to 1, every other generator to 0.
C1_CompletionSoundness ==
    result = "True" =>
        \A i \in Idx : /\ TargetKey(i) \in DOMAIN basis
                       /\ basis[TargetKey(i)] = Partial(i)

\* p is popped before o: smaller degree, or the same degree and enqueued no later
PoppedBefore(p, o) ==
    \/ p.degree < o.degree
    \/ p.degree = o.degree /\ p.unique_counter <= o.unique_counter

\* C2: every step of LieBasisSolver that pops removes one pending item, of
\* minimal enqueue-time degree, and the earliest enqueued among those.
C2_PopOrder ==
    [][(StepTaken /\ iter_count' = iter_count + 1) =>
          \E p \in Items(queue) :
              /\ Items(queue) \cap Items(queue') = Items(queue) \ {p}
              /\ \A o \in Items(queue) : PoppedBefore(p, o)
              /\ \A o \in Items(queue') \ Items(queue) :
                     o.unique_counter >= unique_counter]_vars

\* C2 witness: steps have popped, and the heap array holds a later enqueued
\* item of smaller degree and two items of one degree out of enqueue order.
C2_Witness ==
    /\ impl = "solver"
    /\ iter_count >= 2
    /\ \E a, b \in Items(queue) :
           a.degree < b.degree /\ a.unique_counter > b.unique_counter
    /\ \E i, j \in 1 .. Len(queue) :
           /\ i < j
           /\ queue[i].degree = queue[j].degree
           /\ queue[i].unique_counter > queue[j].unique_counter

\* C3: when run() has returned, its result is true iff a key (i, 1) was
\* inserted for every i (all flags set), within at most max_iter steps.
C3_RunResult ==
    (impl = "solver" /\ result # "none") =>
        /\ result \in {"True", "False"}
        /\ result = "True" <=> \A i \in Idx : TargetKey(i) \in DOMAIN basis
        /\ result = "True" <=> AllFound(targets_found)
        /\ iter_count <= max_iter

\* C3 witness: run() returned true with the success on the max_iter-th step.
C3_Witness ==
    /\ impl = "solver"
    /\ pc = "idle"
    /\ result = "True"
    /\ max_iter > 0
    /\ iter_count = max_iter

\* the terminal states of the outer loop
Succeeded == AllFound(targets_found)
Exhausted == queue = <<>>
BudgetExceeded == iter_count >= max_iter

\* at most max_iter candidates are popped, and the loop of run() is left only
\* in a terminal state, where run() can return
C4_Bounded ==
    impl = "solver" =>
        /\ iter_count <= max_iter
        /\ pc = "run_end" => /\ Succeeded \/ Exhausted \/ BudgetExceeded
                             /\ ENABLED run_return

\* an iteration of the loop of run() pops a candidate or is the last one, and
\* the return statement produces the result
C4_Progress ==
    /\ (impl = "solver" /\ pc = "run") =>
           \/ pc' = "run_end"
           \/ pc' = "run" /\ iter_count' = iter_count + 1
    /\ (impl = "solver" /\ pc = "run_end") => (pc' = "idle" /\ result' # "none")

\* C4: for a non-empty generator list and every max_iter >= 0, run()
\* terminates, in Succeeded, Exhausted or BudgetExceeded: iter_count never
\* exceeds max_iter, and every iteration of the loop of run() but the last
\* increments it.
C4_Termination == []C4_Bounded /\ [][C4_Progress]_vars

\* C4 witness: run() returned on the budget, with candidates still pending
\* and targets still missing.
C4_Witness ==
    /\ impl = "solver"
    /\ pc = "idle"
    /\ result = "False"
    /\ iter_count = MaxIter
    /\ ~Succeeded /\ ~Exhausted /\ BudgetExceeded

\* the (monomial, component index) pairs of the terms of a derivation
TermPairs(D) == UNION {{<<m, i>> : m \in PolyMonos(Image(D, i))} : i \in Idx}

\* the order of leading_term on such pairs: the monomial first, the larger
\* component index second
PairGT(a, b) == MonoGT(a[1], b[1]) \/ (a[1] = b[1] /\ a[2] > b[2])

\* the leading pair of a nonzero derivation
LeadingPair(D) ==
    CHOOSE a \in TermPairs(D) : \A b \in TermPairs(D) : b = a \/ PairGT(a, b)

\* every subtraction of a reduction chain annihilates the candidate or makes
\* its leading pair strictly smaller
Decreasing(chain) ==
    \A k \in 1 .. (Len(chain) - 1) :
        \/ TermPairs(chain[k + 1]) = {}
        \/ PairGT(LeadingPair(chain[k]), LeadingPair(chain[k + 1]))

\* the candidates waiting to be reduced
Pending ==
    IF impl = "solver" THEN {it.derivation : it \in Items(queue)} ELSE Range(queue)

\* the chain of the reduction loop for a candidate and the current basis
ChainOf(D) ==
    IF impl = "solver" THEN ReduceChain(D, basis) ELSE CheckReduceChain(D, basis)

\* C5: for every pending candidate and the basis reached, each subtraction
\* D - lc * basis[key] of the reduction loop (of _reduce and of check) gives
\* zero or a derivation whose leading (monomial, component index) pair is
\* strictly smaller, so the loop ends.
C5_ReductionDecreases == \A D \in Pending : Decreasing(ChainOf(D))

\* C5 witness: for the candidate popped next the loop subtracts twice and a
\* nonzero derivation survives.
C5_Witness ==
    /\ impl = "solver"
    /\ queue # <<>>
    /\ LET chain == ReduceChain(queue[1].derivation, basis)
       IN  Len(chain) >= 3 /\ TermPairs(chain[Len(chain)]) # {}

\* the step that sets the last missing target flag
LastFlagSet == StepTaken /\ ~AllFound(targets_found) /\ AllFound(targets_found')

\* what the step that sets the last missing flag does, and what run() then
\* returns
EarlyStop ==
    /\ LastFlagSet =>
           /\ ret' = "False"
           /\ iter_count' = iter_count + 1
           /\ Len(queue') = Len(queue) - 1
           /\ Items(queue') \subseteq Items(queue)
           /\ unique_counter' = unique_counter
           /\ processed' = processed
           /\ pc = "run" => pc' = "run_end"
    /\ (impl = "solver" /\ pc = "run_end" /\ AllFound(targets_found)) =>
           (pc' = "idle" /\ result' = "True" /\ queue' = queue)

\* C6: the step that sets the last missing flag returns False at once: only
\* the popped item leaves the queue, no commutator enters it, processed is
\* not extended; run() then returns true, also with a non-empty queue.
C6_EarlyStop == [][EarlyStop]_vars

\* C6 witness: run() returned true right after the step that set the last
\* flag, and a candidate is still pending.
C6_Witness ==
    /\ impl = "solver"
    /\ pc = "idle"
    /\ result = "True"
    /\ ret = "False"
    /\ queue # <<>>
    /\ Len(processed) = Cardinality(DOMAIN basis) - 1

\* C7: once all target flags are set, every later step(), called directly or
\* by a second run(), returns False and leaves basis, queue, processed,
\* targets_found and iter_count unchanged.
C7_SucceededTerminal ==
    [][(StepTaken /\ AllFound(targets_found)) =>
          (ret' = "False" /\ UNCHANGED solverState)]_vars

\* C8: a LieBasisSolver built from the empty list raises before any of its
\* attributes is bound: no step can run and no result is produced.
C8_EmptyRejected ==
    (impl = "solver" /\ generators = <<>> /\ pc # "start") =>
        /\ pc = "raised"
        /\ attrs = {}
        /\ solverState = <<EmptyBasis, <<>>, <<>>, [i \in Idx |-> FALSE], 0, 0>>
        /\ ret = "none" /\ result = "none"
        /\ ~ENABLED (step_call \/ run_call \/ run_loop \/ run_return)

\* C8 witness: the constructor was called with the empty list and raised.
C8_Witness == impl = "solver" /\ generators = <<>> /\ pc = "raised"

\* -D
DerivNeg(D) == DerivMul(D, RatInt(-1))

\* C9: with the generators [d/dx, x^k d/dy], 1 <= k <= MaxK, a completion
\* whose budget is not used up, or is the default, returns true; for k = 1
\* the bracket of the two generators is d/dy up to sign, and d/dy is what is
\* inserted at key (y, 1), by the step that completes the target set.
C9_Commutators ==
    /\ (result # "none" /\ (iter_count < max_iter \/ max_iter = DefaultBudget(impl)))
           => result = "True"
    /\ generators = CommGens(1) =>
           /\ bracket(generators[1], generators[2]) \in {Partial(1), DerivNeg(Partial(1))}
           /\ AllFound(targets_found) <=> TargetKey(1) \in DOMAIN basis
           /\ TargetKey(1) \in DOMAIN basis =>
                  /\ basis[TargetKey(1)] = Partial(1)
                  /\ Partial(1) \notin Range(processed)
                  /\ Range(processed) = {basis[key] : key \in DOMAIN basis} \ {Partial(1)}

\* C9 witness: for k = 1 the solver returned true under the default budget
\* after the third step inserted d/dy.
C9_Witness ==
    /\ impl = "solver"
    /\ generators = CommGens(1)
    /\ max_iter = DefaultMaxIter
    /\ result = "True"
    /\ iter_count = 3
    /\ basis[TargetKey(1)] = Partial(1)

\* every image of every generator has a zero constant term
VanishAtOrigin(gs) ==
    \A k \in 1 .. Len(gs) : \A i \in Idx : MonoOne \notin PolyMonos(Image(gs[k], i))

\* C10: if every image of every input generator has a zero constant term, no
\* basis key has the monomial 1, no target flag is set, and the completion
\* (run() or check) does not return true, whatever the budget.
C10_NoConstantOperator ==
    VanishAtOrigin(generators) =>
        /\ \A key \in DOMAIN basis : key[2] # MonoOne
        /\ \A i \in Idx : ~targets_found[i]
        /\ result # "True"
        /\ pc \in {"idle", "returned"} /\ result # "none" => result = "False"

\* [x d/dx, y d/dy]
ScalingFields ==
    <<Derivation([j \in Idx |-> IF j = 0 THEN PolyTerm(RatOne, MonoGen(0)) ELSE PolyZero]),
      Derivation([j \in Idx |-> IF j = 1 THEN PolyTerm(RatOne, MonoGen(1)) ELSE PolyZero])>>

\* C10 witness: the completion of [x d/dx, y d/dy] returned false once the two
\* fields and their zero bracket were consumed.
C10_Witness ==
    /\ generators = ScalingFields
    /\ bracket(generators[1], generators[2]) = DerivZero
    /\ result = "False"
    /\ iter_count = 3
    /\ queue = <<>>
    /\ DOMAIN basis = {<<0, MonoGen(0)>>, <<1, MonoGen(1)>>}

\* no input generator moves g_j
Unreached(j) == \A k \in 1 .. Len(generators) : Image(generators[k], j) = PolyZero

\* C11: if every input generator maps g_j to 0, every derivation queued,
\* processed or stored in the basis maps g_j to 0, targets_found[j] stays
\* false, and the completion (run() or check) returns false, not true.
C11_UnreachableDirection ==
    \A j \in Idx :
        Unreached(j) =>
            /\ \A D \in Pending : Image(D, j) = PolyZero
            /\ \A key \in DOMAIN basis : key[1] # j /\ Image(basis[key], j) = PolyZero
            /\ \A D \in Range(processed) : Image(D, j) = PolyZero
            /\ ~targets_found[j]
            /\ result # "True"
            /\ (pc \in {"idle", "returned"} /\ result # "none") => result = "False"

\* C11 witness: check on the single generator d/dx returned false with d/dx in
\* the basis and y never reached.
C11_Witness ==
    /\ impl = "check"
    /\ generators = <<Partial(0)>>
    /\ Unreached(1)
    /\ max_iter > 0
    /\ result = "False"
    /\ DOMAIN basis = {TargetKey(0)}
    /\ targets_found = [i \in Idx |-> i = 0]

\* sum_der of test_jacobi_identity: term1(el) + term2(el) + term3(el) for the
\* generator el = g_i
JacobiSum(i) ==
    PolyAdd(PolyAdd(Image(queue[1], i), Image(queue[2], i)), Image(queue[3], i))

\* C12: for all derivations A, B, C, bracket(A, bracket(B, C)) +
\* bracket(B, bracket(C, A)) + bracket(C, bracket(A, B)) is 0 on every generator.
C12_Jacobi ==
    (impl = "bracket" /\ pc = "terms") => \A i \in Idx : JacobiSum(i) = PolyZero

\* A: x -> 1, B: x -> y, C: y -> x, the derivations of test_jacobi_identity
JacobiTriple ==
    <<Partial(0),
      Derivation([j \in Idx |-> IF j = 0 THEN PolyTerm(RatOne, MonoGen(1)) ELSE PolyZero]),
      Derivation([j \in Idx |-> IF j = 1 THEN PolyTerm(RatOne, MonoGen(0)) ELSE PolyZero])>>

\* C12 witness: the three terms of the tested triple are computed; [A, B] is
\* zero, and the other two terms are nonzero and cancel.
C12_Witness ==
    /\ impl = "bracket"
    /\ pc = "terms"
    /\ generators = JacobiTriple
    /\ queue[1] # DerivZero /\ queue[2] # DerivZero
    /\ queue[3] = DerivZero

\* C13: for all derivations A, B and every generator g, bracket(A, B)(g) is
\* A(B(g)) - B(A(g)) and equals -bracket(B, A)(g).
C13_AntiSymmetry ==
    (impl = "bracket" /\ pc # "start") =>
        LET A == generators[1]
            B == generators[2]
            bracket_12 == processed[1]
            bracket_21 == processed[2]
        IN  \A i \in Idx :
                /\ Image(bracket_12, i) = PolyScale(Image(bracket_21, i), RatInt(-1))
                /\ Image(bracket_12, i) = PolySub(DerivCall(A, Image(B, i)),
                                                  DerivCall(B, Image(A, i)))

\* C13 witness: for D1: x -> y and D2: y -> x of test_bracket_properties,
\* [D1, D2] maps x to -x and y to y, and [D2, D1] maps x to x and y to -y.
C13_Witness ==
    /\ impl = "bracket"
    /\ pc = "pairs"
    /\ generators[1] = JacobiTriple[2]
    /\ generators[2] = JacobiTriple[3]
    /\ Image(processed[1], 0) = PolyTerm(RatInt(-1), MonoGen(0))
    /\ Image(processed[1], 1) = PolyTerm(RatOne, MonoGen(1))
    /\ Image(processed[2], 0) = PolyTerm(RatOne, MonoGen(0))
    /\ Image(processed[2], 1) = PolyTerm(RatInt(-1), MonoGen(1))

\* the component indices with a nonzero image
NonzeroIdx(D) == {k \in Idx : Image(D, k) # PolyZero}

\* the greatest of a non-empty set of monomials
MaxMono(ms) == CHOOSE m \in ms : \A o \in ms : o = m \/ MonoGT(m, o)

\* the greatest of a non-empty set of indices
MaxIdx(is) == CHOOSE i \in is : \A o \in is : o <= i

\* the leading term as the claim states it: absent for the zero derivation,
\* else (i, m, c) with m the greatest leading monomial of the nonzero images,
\* i the largest index whose image has leading monomial m, c its coefficient
SelectedTerm(D) ==
    IF NonzeroIdx(D) = {} THEN None
    ELSE LET m == MaxMono({PolyLm(Image(D, k)) : k \in NonzeroIdx(D)})
             i == MaxIdx({k \in NonzeroIdx(D) : PolyLm(Image(D, k)) = m})
         IN  <<i, m, PolyLc(Image(D, i))>>

\* C14: leading_term (and _get_leading_term of check) is absent iff the
\* derivation maps every generator to 0, and is otherwise (i, m, c): m the
\* greatest leading monomial of the nonzero images, i the largest component
\* index with that leading monomial, c the leading coefficient of D(g_i).
C14_LeadingTerm ==
    (impl = "leading_term" /\ pc = "returned") =>
        LET D == processed[1]
        IN  /\ queue[1] = SelectedTerm(D)
            /\ queue[2] = SelectedTerm(D)
            /\ queue[1] = None <=> \A k \in Idx : Image(D, k) = PolyZero

\* C14 witness: both images of the derivation are nonzero with the same
\* leading monomial x, and the term of the larger index is returned, with its
\* coefficient -2.
C14_Witness ==
    /\ impl = "leading_term"
    /\ pc = "returned"
    /\ NonzeroIdx(processed[1]) = Idx
    /\ PolyLm(Image(processed[1], 0)) = MonoGen(0)
    /\ PolyLc(Image(processed[1], 0)) = RatOne
    /\ queue[1] = <<1, MonoGen(0), RatInt(-2)>>
    /\ queue[2] = queue[1]

\* a non-empty list of zero derivations was given
AllZeroInput ==
    /\ generators # <<>>
    /\ \A k \in 1 .. Len(generators) : generators[k] = DerivZero

\* on an all-zero input every popped generator is discarded: the basis and
\* processed stay empty, nothing is enqueued, no flag is set
ZeroesDiscarded ==
    /\ basis = EmptyBasis
    /\ processed = <<>>
    /\ unique_counter = Len(generators)
    /\ Len(queue) = Len(generators) - iter_count
    /\ \A it \in Items(queue) : it.derivation = DerivZero
    /\ \A i \in Idx : ~targets_found[i]

\* C15 as stated: on an all-zero input the solver discards every popped
\* generator, and the run ends in Exhausted (queue empty) with result false,
\* whatever the budget.
C15_AllZeroExhausts ==
    (impl = "solver" /\ AllZeroInput /\ pc # "start") =>
        /\ ZeroesDiscarded
        /\ result # "none" => (result = "False" /\ Exhausted)

\* C15 amended: on an all-zero input the solver discards every popped
\* generator and the result is false; the run ends in Exhausted (queue empty)
\* when max_iter is at least the number of generators, and otherwise in
\* BudgetExceeded with the remaining generators still queued.
C15_AllZeroAmended ==
    (impl = "solver" /\ AllZeroInput /\ pc # "start") =>
        /\ ZeroesDiscarded
        /\ result # "none" =>
               /\ result = "False"
               /\ max_iter >= Len(generators) => Exhausted
               /\ max_iter < Len(generators) =>
                      (BudgetExceeded /\ Len(queue) = Len(generators) - max_iter)

\* C15 witness: run() on two zero derivations popped and discarded both and
\* returned false with the queue empty.
C15_Witness ==
    /\ impl = "solver"
    /\ generators = <<DerivZero, DerivZero>>
    /\ pc = "idle"
    /\ result = "False"
    /\ iter_count = 2
    /\ ret = "False"
    /\ Exhausted

\* the leading term as the completion at hand computes it
LeadingTermOf(D) == IF impl = "check" THEN get_leading_term(D) ELSE leading_term(D)

\* C16: every basis entry stored at key (i, m) has the leading term (i, m, 1):
\* leading component i, leading monomial m, leading coefficient 1.
C16_BasisNormalized ==
    [](\A key \in DOMAIN basis :
           LeadingTermOf(basis[key]) = <<key[1], key[2], RatOne>>)

\* C16 witness: the solver accepted [x d/dy, d/dx] = -d/dy, whose leading
\* coefficient is -1, and stored it as d/dy at key (y, 1).
C16_Witness ==
    /\ impl = "solver"
    /\ generators = CommGens(1)
    /\ iter_count = 3
    /\ bracket(generators[2], generators[1]) = DerivNeg(Partial(1))
    /\ leading_term(bracket(generators[2], generators[1])) = <<1, MonoOne, RatInt(-1)>>
    /\ TargetKey(1) \in DOMAIN basis
    /\ basis[TargetKey(1)] = Partial(1)

\* the locals of check as the actions have left them
CheckLocalsNow ==
    [basis |-> basis, queue |-> queue, processed |-> processed,
     targets_found |-> targets_found, iter_count |-> iter_count, result |-> result]

\* check as a function returns what check run step by step returns
CheckFunctionAgrees ==
    (impl = "check" /\ pc = "returned") => CheckLocalsNow = check(generators, max_iter)

\* C17: for every non-empty generator list and every budget, check(generators,
\* max_iter) and LieBasisSolver(generators, max_iter).run() return the same
\* boolean and end with the same target flags.
C17_EntryPointsAgree ==
    (impl = "solver" /\ generators # <<>> /\ pc = "idle" /\ result # "none") =>
        /\ result = check(generators, max_iter).result
        /\ targets_found = check(generators, max_iter).targets_found

\* the key under which step() stores a nonzero derivation
KeyOf(D) == <<leading_term(D)[1], leading_term(D)[2]>>

\* this step pops a candidate that does not reduce to zero
AcceptingStep ==
    /\ StepTaken
    /\ ~Stopped(queue, iter_count, max_iter)
    /\ reduce(heappop(queue)[1].derivation, basis) # DerivZero

\* a step keeps every basis entry, and an accepting step adds one entry under
\* a new key
BasisGrows ==
    StepTaken =>
        /\ \A key \in DOMAIN basis : key \in DOMAIN basis' /\ basis'[key] = basis[key]
        /\ IF AcceptingStep
           THEN /\ Cardinality(DOMAIN basis') = Cardinality(DOMAIN basis) + 1
                /\ KeyOf(Normalize(reduce(heappop(queue)[1].derivation, basis),
                                   leading_term(reduce(heappop(queue)[1].derivation,
                                                       basis))[3]))
                       \in DOMAIN basis' \ DOMAIN basis
           ELSE basis' = basis

\* processed elements are basis values at their own keys, and the basis holds
\* at most one element more than processed
ProcessedInBasis ==
    impl = "solver" =>
        /\ \A D \in Range(processed) :
               /\ leading_term(D) # None
               /\ KeyOf(D) \in DOMAIN basis
               /\ basis[KeyOf(D)] = D
        /\ Len(processed) <= Cardinality(DOMAIN basis)
        /\ Cardinality(DOMAIN basis) <= Len(processed) + 1

\* C18: step() never overwrites or removes a basis entry: an accepting step
\* inserts under a key that was absent, so the basis grows by one; every
\* element of processed is the basis value at its own leading key, and
\* |processed| <= |basis| <= |processed| + 1.
C18_NoOverwrite == []ProcessedInBasis /\ [][BasisGrows]_vars

\* C18 witness: four accepting steps of the solver, the fourth of which set the
\* last flag: four basis entries, one more than processed.
C18_Witness ==
    /\ impl = "solver"
    /\ Cardinality(DOMAIN basis) = 4
    /\ Len(processed) = 3
    /\ AllFound(targets_found)
    /\ \A D \in Range(processed) : basis[KeyOf(D)] = D

\* the flag of g_i is set exactly when the key (i, 1) is in the basis
FlagsMatchBasis ==
    impl = "solver" => \A i \in Idx : targets_found[i] <=> TargetKey(i) \in DOMAIN basis

\* a flag that is set stays set
FlagsStay ==
    impl = "solver" => \A i \in Idx : targets_found[i] => targets_found'[i]

\* C19: in every reachable state of the solver targets_found[i] is true iff
\* the basis contains the key (i, 1), and a flag that has become true never
\* becomes false again.
C19_FlagsTrackBasis == []FlagsMatchBasis /\ [][FlagsStay]_vars

\* C19 witness: one flag is set and its key is in the basis, the other flag
\* is not, and the basis also holds an entry that is no target.
C19_Witness ==
    /\ impl = "solver"
    /\ targets_found[0] /\ ~targets_found[1]
    /\ TargetKey(0) \in DOMAIN basis
    /\ \E key \in DOMAIN basis : key[2] # MonoOne
    /\ iter_count >= 3

\* the pending item that the next step pops: first in the order of the queue
NextPopped == CHOOSE p \in Items(queue) : \A o \in Items(queue) : PoppedBefore(p, o)

\* this step pops a candidate that is, or reduces to, the zero derivation
AnnihilatingStep ==
    /\ StepTaken
    /\ ~Stopped(queue, iter_count, max_iter)
    /\ LET chain == ReduceChain(NextPopped.derivation, basis)
       IN  chain[Len(chain)] = DerivZero

\* what such a step does
Discarded ==
    AnnihilatingStep =>
        /\ ret' = "True"
        /\ iter_count' = iter_count + 1
        /\ Len(queue') = Len(queue) - 1
        /\ Items(queue') = Items(queue) \ {NextPopped}
        /\ UNCHANGED <<basis, processed, targets_found, unique_counter>>
        /\ pc' = pc

\* C20: a step whose popped candidate is, or reduces to, the zero derivation
\* removes exactly that queue item, increments iter_count and returns True;
\* basis, processed, targets_found and the other queue items are unchanged
\* and nothing is enqueued.
C20_AnnihilatedDiscarded == [][Discarded]_vars

\* C20 witness: the solver, given two nonzero generators, has popped three
\* candidates, accepted two and discarded their bracket, and goes on.
C20_Witness ==
    /\ impl = "solver"
    /\ pc = "run"
    /\ Len(generators) = 2
    /\ \A k \in 1 .. 2 : generators[k] # DerivZero
    /\ iter_count = 3
    /\ ret = "True"
    /\ Cardinality(DOMAIN basis) = 2
    /\ Len(processed) = 2
    /\ unique_counter = 3
    /\ queue = <<>>

\* a LieBasisSolver instance exists: __init__ has returned
Constructed == impl = "solver" /\ attrs = SolverAttrs

\* k(k-1)/2: the number of pairs among k processed elements
PairCount(k) == (k * (k - 1)) \div 2

\* the counters, the queue length and the priorities of the pending items
QueueAccounting ==
    Constructed =>
        /\ unique_counter = Len(generators) + PairCount(Len(processed))
        /\ Len(queue) = unique_counter - iter_count
        /\ \A k \in 1 .. Len(queue) :
               /\ queue[k].degree = degree(queue[k].derivation)
               /\ queue[k].unique_counter \in 0 .. unique_counter - 1
        /\ Cardinality({queue[k].unique_counter : k \in 1 .. Len(queue)}) = Len(queue)

\* the items an accepting non-final step enqueues for the element new_D
Spawned(new_D) ==
    {LET new_bracket == bracket(new_D, processed[j])
     IN  IF Evaluated(new_bracket)
         THEN QueueItem(degree(new_bracket), unique_counter + j - 1, new_bracket)
         ELSE None : j \in 1 .. Len(processed)}

\* only an accepting non-final step enqueues: one bracket per processed element
SpawnsPairs ==
    Constructed =>
        IF StepTaken /\ processed' # processed
        THEN /\ Len(processed') = Len(processed) + 1
             /\ SubSeq(processed', 1, Len(processed)) = processed
             /\ Items(queue') =
                    (Items(queue) \ {NextPopped}) \cup Spawned(processed'[Len(processed')])
             /\ unique_counter' = unique_counter + Len(processed)
             /\ iter_count' = iter_count + 1
        ELSE /\ unique_counter' = unique_counter
             /\ Items(queue') \subseteq Items(queue)

\* C21: in every state of a constructed solver, with k = |processed|,
\* unique_counter = |generators| + k(k-1)/2 and the queue length is
\* unique_counter - iter_count; every pending item has the degree of its own
\* derivation as priority; an accepting non-final step enqueues exactly one
\* bracket(new, old) per processed element old and appends new to processed,
\* and no other step enqueues.
C21_QueueAccounting == []QueueAccounting /\ [][SpawnsPairs]_vars

\* C21 witness: three elements are processed, so three brackets were enqueued
\* after the two generators, and one candidate is still pending.
C21_Witness ==
    /\ Constructed
    /\ Len(generators) = 2
    /\ Len(processed) = 3
    /\ unique_counter = 5
    /\ iter_count = 4
    /\ Len(queue) = 1

\* step() is called with nothing pending or with the budget used up
RefusedStep ==
    /\ StepTaken
    /\ (Len(queue) = 0 \/ iter_count >= max_iter)

\* what such a call does: it returns False and leaves the instance alone
NoOp ==
    RefusedStep =>
        /\ ret' = "False"
        /\ basis' = basis
        /\ queue' = queue
        /\ processed' = processed
        /\ targets_found' = targets_found
        /\ iter_count' = iter_count
        /\ unique_counter' = unique_counter
        /\ UNCHANGED <<generators, max_iter, attrs>>

\* C22: when the queue is empty or iter_count >= max_iter, step() returns
\* False and changes nothing: basis, queue, processed, targets_found,
\* iter_count and unique_counter keep their values.
C22_StoppedStepNoOp == [][NoOp]_vars

\* C22 witness: a step was refused for the budget: it returned False without
\* success, with candidates still pending and iter_count equal to max_iter.
C22_Witness ==
    /\ Constructed
    /\ ret = "False"
    /\ ~AllFound(targets_found)
    /\ queue # <<>>
    /\ iter_count = max_iter
    /\ max_iter >= 2
    /\ basis # EmptyBasis

====
